---- MODULE Spec2Model ----
(***************************************************************************)
(* A model of file_query_mcp.py: the four MCP tools list_data_files,       *)
(* list_file_schema, load_override_schema and query_files, the two         *)
(* documents they persist (data_files.json, schema_descriptions.json),     *)
(* the in-memory DuckDB connection `con`, and the file system they read.   *)
(*                                                                         *)
(* Strings the code cuts, compares or rewrites (file names, paths, table   *)
(* names, SQL text) are sequences of one-character strings, so that        *)
(* str.endswith, str.replace, str.split and str.join are computed as       *)
(* Python computes them.                                                   *)
(***************************************************************************)
EXTENDS Naturals, Sequences, FiniteSets

VARIABLES
    fs,                         \* the files on disk: a set of <<directory, file name>>
    scandir,                    \* directory -> its file names, in the order the disk lists them
    data_files_json,            \* the persisted catalog document data_files.json
    schema_descriptions_json,   \* the persisted schema cache schema_descriptions.json
    con,                        \* the DuckDB session: table name -> registered dataframe
    ret,                        \* the last tool call: its input, result and external calls
    tick                        \* flips at every tool call (tells two equal calls apart)

vars == <<fs, scandir, data_files_json, schema_descriptions_json, con, ret, tick>>

----------------------------------------------------------------------------
(* Bounds of the model *)

\* most files on disk at one time
MaxFiles == 2
\* most names in one list_file_schema call
MaxNames == 2
\* most columns in one schema override
MaxCols == 1
\* most table references in one query
MaxRefs == 2

----------------------------------------------------------------------------
(* Python string operations on sequences of characters *)

NoStr == <<>>

\* x in list
InSeq(x, seq) == \E i \in DOMAIN seq : seq[i] = x

\* s.endswith(suffix)
EndsWith(s, suffix) ==
    /\ Len(s) >= Len(suffix)
    /\ SubSeq(s, Len(s) - Len(suffix) + 1, Len(s)) = suffix

\* s.startswith(prefix)
StartsWith(s, prefix) ==
    /\ Len(s) >= Len(prefix)
    /\ SubSeq(s, 1, Len(prefix)) = prefix

\* s.replace(old, new): every non-overlapping occurrence, scanning left to right
RECURSIVE Replace(_, _, _)
Replace(s, old, new) ==
    IF Len(s) < Len(old) \/ old = <<>> THEN s
    ELSE IF SubSeq(s, 1, Len(old)) = old
         THEN new \o Replace(SubSeq(s, Len(old) + 1, Len(s)), old, new)
         ELSE <<s[1]>> \o Replace(Tail(s), old, new)

IsSpace(c) == c \in {" ", "\n", "\t"}

RECURSIVE SplitAcc(_, _, _)
SplitAcc(s, cur, acc) ==
    IF s = <<>> THEN (IF cur = <<>> THEN acc ELSE Append(acc, cur))
    ELSE IF IsSpace(s[1])
         THEN SplitAcc(Tail(s), <<>>, IF cur = <<>> THEN acc ELSE Append(acc, cur))
         ELSE SplitAcc(Tail(s), Append(cur, s[1]), acc)

\* s.split(): the maximal runs of non-whitespace characters
Split(s) == SplitAcc(s, <<>>, <<>>)

\* sep.join(parts)
RECURSIVE Join(_, _)
Join(sep, parts) ==
    IF parts = <<>> THEN <<>>
    ELSE IF Len(parts) = 1 THEN parts[1]
    ELSE parts[1] \o sep \o Join(sep, Tail(parts))

\* os.path.join(root, file) for a root that does not end with a separator
PathJoin(root, file) == root \o <<"/">> \o file

----------------------------------------------------------------------------
(* The strings of the model's worlds *)

dot_csv      == <<".", "c", "s", "v">>
dot_json     == <<".", "j", "s", "o", "n">>
dot_xlsx     == <<".", "x", "l", "s", "x">>
dot_parquet  == <<".", "p", "a", "r", "q", "u", "e", "t">>
dot_paraquet == <<".", "p", "a", "r", "a", "q", "u", "e", "t">>

a_csv      == <<"a">> \o dot_csv
b_csv      == <<"b">> \o dot_csv
xa_csv     == <<"x", "a">> \o dot_csv
b_json     == <<"b">> \o dot_json
c_xlsx     == <<"c">> \o dot_xlsx
p_parquet  == <<"p">> \o dot_parquet
q_paraquet == <<"q">> \o dot_paraquet
n_txt      == <<"n", ".", "t", "x", "t">>
u_CSV      == <<"u", ".", "C", "S", "V">>
a_dash_b_csv == <<"a", "-", "b">> \o dot_csv
a_dot_b_csv  == <<"a", ".", "b">> \o dot_csv

dir_d  == <<"/", "d">>
dir_ds == <<"/", "d", "/", "s">>
\* the directories of the modelled disk: /d and, below it, /d/s
Dirs   == {dir_d, dir_ds}

\* the key of the no-files marker {"error": "No data files found"}
error_key == <<"e", "r", "r", "o", "r">>
\* the literal key "file" written at line 138
file_key  == <<"f", "i", "l", "e">>

----------------------------------------------------------------------------
(* The file system *)

\* os.path.exists(path) for the path of a file
Exists(disk, path) == \E f \in disk : PathJoin(f[1], f[2]) = path

\* dir is the root of the walk or a directory below it
InTree(root, dir) == dir = root \/ StartsWith(dir, root \o <<"/">>)

FilesUnder(disk, root) == {f \in disk : InTree(root, f[1])}

\* os.walk(path) is top-down: a directory's files come together and before the
\* files of the directories below it; the order inside a directory is the file
\* system's.  A path that is no directory yields nothing.
WalkOrders(disk, root) ==
    LET S == FilesUnder(disk, root)
        n == Cardinality(S)
    IN  {w \in [1..n -> S] :
            /\ \A i, j \in 1..n : i # j => w[i] # w[j]
            /\ \A i, j \in 1..n :
                  (i < j) => ~(w[i][1] # w[j][1] /\ InTree(w[j][1], w[i][1]))
            /\ \A i, j, k \in 1..n :
                  (i < j /\ j < k /\ w[i][1] = w[k][1]) => w[j][1] = w[i][1]}

\* where x stands in a sequence that holds it
Position(seq, x) == CHOOSE i \in 1..Len(seq) : seq[i] = x

\* a loop over an unordered collection of the names: any order, at every call
InListingOrderAny(w, order) == TRUE

\* the `files` of one directory come in the order the disk lists them, which is
\* the same at every walk as long as the directory is not changed
InListingOrder(w, order) ==
    \A i, j \in DOMAIN w :
        (i < j /\ w[i][1] = w[j][1])
            => Position(order[w[i][1]], w[i][2]) < Position(order[w[j][1]], w[j][2])

\* the walk of the tree below root, as os.walk yields it
Walks(disk, order, root) == {w \in WalkOrders(disk, root) : InListingOrder(w, order)}

----------------------------------------------------------------------------
(* The catalog document data_files.json: a JSON object, kept in key order *)

NoCatalog     == [kind |-> "absent", entries |-> <<>>]
MarkerCatalog == [kind |-> "marker", entries |-> <<>>]
MapCatalog(entries) == [kind |-> "map", entries |-> entries]

\* data_files.keys() of a loaded document, in order
Keys(doc) ==
    IF doc.kind = "marker" THEN <<error_key>>
    ELSE [i \in DOMAIN doc.entries |-> doc.entries[i].file]

\* the entry data_files[file] of a catalog mapping
Entry(doc, file) ==
    LET i == CHOOSE i \in DOMAIN doc.entries : doc.entries[i].file = file
    IN  doc.entries[i]

\* file has an entry {path, table_name} in the document
Cataloged(doc, file) ==
    doc.kind = "map" /\ \E i \in DOMAIN doc.entries : doc.entries[i].file = file

\* d[key] = value on a dict: a new key goes last, an old key keeps its place
DictSet(entries, e) ==
    IF \E i \in DOMAIN entries : entries[i].file = e.file
    THEN [i \in DOMAIN entries |->
              IF entries[i].file = e.file THEN e ELSE entries[i]]
    ELSE Append(entries, e)

\* file.endswith(('.csv', '.json', '.xlsx', '.paraquet'))
IsDataFile(file) ==
    \/ EndsWith(file, dot_csv)
    \/ EndsWith(file, dot_json)
    \/ EndsWith(file, dot_xlsx)
    \/ EndsWith(file, dot_paraquet)

\* the table name with the second replace lost: '-' stays
TableNameDotsOnly(file) == <<"_">> \o Replace(file, <<".">>, <<"_">>)

\* "_" + file.replace('.', '_').replace('-', '_')
TableName(file) ==
    <<"_">> \o Replace(Replace(file, <<".">>, <<"_">>), <<"-">>, <<"_">>)

CatalogEntry(root, file) ==
    [file |-> file, path |-> PathJoin(root, file), table_name |-> TableName(file)]

\* FirstDataFiles with the reset lost: discovery adds to the last catalog's entries
FirstDataFilesMerge(doc) == doc.entries

\* data_files = {} (line 56)
FirstDataFiles(doc) == <<>>

\* the loop of lines 59-71 over one walk
RECURSIVE Discover(_, _)
Discover(walk, data_files) ==
    IF walk = <<>> THEN data_files
    ELSE LET f == walk[1]
         IN  Discover(Tail(walk),
                      IF IsDataFile(f[2])
                      THEN DictSet(data_files, CatalogEntry(f[1], f[2]))
                      ELSE data_files)

\* lines 74-78: the no-files marker or the mapping
DumpCatalog(data_files) ==
    IF data_files = <<>> THEN MarkerCatalog ELSE MapCatalog(data_files)

----------------------------------------------------------------------------
(* Python dicts whose key order is not observed: the schema cache, the     *)
(* tables of the DuckDB session                                            *)

EmptyMap == [k \in {} |-> NoStr]

\* d[key] = value
MapSet(m, key, value) ==
    [k \in DOMAIN m \cup {key} |-> IF k = key THEN value ELSE m[k]]

----------------------------------------------------------------------------
(* The texts list_file_schema and load_override_schema build.  A text is   *)
(* kept as what it is made from: the file name and the dataframe it        *)
(* describes (the file read and the column types forced on it).            *)

Dataframe(path, dtypes) == [path |-> path, dtypes |-> dtypes]

\* lines 145-149: schema, statistics and first rows of an inferred dataframe
SchemaText(file, df) ==
    [kind |-> "schema", file |-> file, path |-> df.path, dtypes |-> df.dtypes,
     preview |-> FALSE]

\* lines 242-246: the same of a dataframe loaded with an override
OverrideText(file, df) ==
    [kind |-> "override", file |-> file, path |-> df.path, dtypes |-> df.dtypes,
     preview |-> FALSE]

\* line 119
NotFoundText(file) ==
    [kind |-> "not_found", file |-> file, path |-> NoStr, dtypes |-> <<>>,
     preview |-> FALSE]

\* line 138
UnsupportedFormatText(file) ==
    [kind |-> "unsupported_format", file |-> file, path |-> NoStr, dtypes |-> <<>>,
     preview |-> FALSE]

\* lines 160-168: the reader's error and, when the file opens, its first 500 characters
ErrorText(file, preview) ==
    [kind |-> "error", file |-> file, path |-> NoStr, dtypes |-> <<>>,
     preview |-> preview]

----------------------------------------------------------------------------
(* The schema cache document schema_descriptions.json *)

\* lines 104-108 and 194-198: the loaded cache, {} when there is no document
LoadCache(doc) == IF doc.exists THEN doc.map ELSE EmptyMap

\* json.dump(schema_descriptions, open("schema_descriptions.json", "w"))
DumpCache(schema_descriptions) == [exists |-> TRUE, map |-> schema_descriptions]

\* InCache with the test lost: every name is introspected again
InCacheNever(schema_descriptions, file) == FALSE

\* the test of line 127, negated: file in schema_descriptions.keys()
InCache(schema_descriptions, file) == file \in DOMAIN schema_descriptions

\* the extensions the readers of lines 129-136 and 227-234 are chosen by
ReaderFormat(file) ==
    \/ EndsWith(file, dot_csv)
    \/ EndsWith(file, dot_json)
    \/ EndsWith(file, dot_xlsx)
    \/ EndsWith(file, dot_parquet)

\* pl.read_csv and the other readers: they fail on a path that is not on disk,
\* and otherwise succeed or raise as the file's content decides (ok)
ReadOk(disk, path, ok) == ok /\ Exists(disk, path)

----------------------------------------------------------------------------
(* The result of a tool call *)

NoOut == [kind |-> "none"]

Result(op, arg, exc, out, reads, sql) ==
    [op |-> op, arg |-> arg, exc |-> exc, out |-> out, reads |-> reads, sql |-> sql]

----------------------------------------------------------------------------
(* list_data_files *)

\* list_data_files that also empties the schema cache with each new catalog
list_data_files_reset(path) ==
    \E walk \in Walks(fs, scandir, path) :
        LET data_files == Discover(walk, FirstDataFiles(data_files_json))
            names_list == [i \in DOMAIN data_files |-> data_files[i].file]
        IN  /\ data_files_json' = DumpCatalog(data_files)
            /\ schema_descriptions_json' = DumpCache(EmptyMap)
            /\ ret' = Result("list_data_files", path, "none",
                             Join(<<"\n">>, names_list), walk, <<>>)
            /\ tick' = 1 - tick
            /\ UNCHANGED <<fs, scandir, con>>

list_data_files(path) ==
    \E walk \in Walks(fs, scandir, path) :
        LET data_files == Discover(walk, FirstDataFiles(data_files_json))
            names_list == [i \in DOMAIN data_files |-> data_files[i].file]
        IN  /\ data_files_json' = DumpCatalog(data_files)
            /\ ret' = Result("list_data_files", path, "none",
                             Join(<<"\n">>, names_list), walk, <<>>)
            /\ tick' = 1 - tick
            /\ UNCHANGED <<fs, scandir, schema_descriptions_json, con>>

----------------------------------------------------------------------------
(* list_file_schema *)

\* the locals of one call: the cache in memory, what the call has written to
\* the cache document and to the session, the reader's invocations, and the
\* exception that ended the call, if one did
LfsStart(doc, tables) ==
    [schema_descriptions |-> LoadCache(doc), disk |-> doc, con |-> tables,
     reads |-> <<>>, exc |-> "none"]

\* lines 118-120: the name is not a key of the catalog
LfsNotFound(st, file) ==
    [st EXCEPT !.schema_descriptions = MapSet(@, file, NotFoundText(file))]

\* lines 137-139: no reader for the extension; the text goes under the key "file"
LfsUnsupported(st, file) ==
    [st EXCEPT !.schema_descriptions = MapSet(@, file_key, UnsupportedFormatText(file))]

\* lines 141-156: the dataframe is registered, described, and the cache written
LfsLoaded(st, e) ==
    LET df == Dataframe(e.path, <<>>)
        sd == MapSet(st.schema_descriptions, e.file, SchemaText(e.file, df))
    IN  [schema_descriptions |-> sd,
         disk |-> DumpCache(sd),
         con |-> MapSet(st.con, e.table_name, df),
         reads |-> Append(st.reads, [file |-> e.file, path |-> e.path]),
         exc |-> "none"]

\* lines 158-168: the reader raised; the diagnostic stays in memory
LfsFailed(st, e, disk) ==
    [st EXCEPT !.schema_descriptions =
                   MapSet(@, e.file, ErrorText(e.file, Exists(disk, e.path))),
               !.reads = Append(@, [file |-> e.file, path |-> e.path])]

\* line 156 on a cache hit: the cache in memory is written as it is
LfsCached(st) == [st EXCEPT !.disk = DumpCache(st.schema_descriptions)]

\* one turn of the loop of lines 116-168 for one requested name
LfsFile(st, file, ok, data_files, disk) ==
    IF st.exc # "none" THEN st
    ELSE IF data_files.kind = "absent"
         THEN [st EXCEPT !.exc = "UnboundLocalError"]       \* line 118: data_files unbound
    ELSE IF ~InSeq(file, Keys(data_files)) THEN LfsNotFound(st, file)
    ELSE IF data_files.kind = "marker"
         THEN [st EXCEPT !.exc = "TypeError"]               \* line 122: "No data files found"["path"]
    ELSE LET e == Entry(data_files, file)
         IN  IF InCache(st.schema_descriptions, file) THEN LfsCached(st)
             ELSE IF ~ReaderFormat(file) THEN LfsUnsupported(st, file)
             ELSE IF ReadOk(disk, e.path, ok) THEN LfsLoaded(st, e)
             ELSE LfsFailed(st, e, disk)

RECURSIVE LfsLoop(_, _, _, _, _, _)
LfsLoop(st, names, oks, i, data_files, disk) ==
    IF i > Len(names) THEN st
    ELSE LfsLoop(LfsFile(st, names[i], oks[names[i]], data_files, disk),
                 names, oks, i + 1, data_files, disk)

RECURSIVE LfsOutput(_, _)
\* line 171: the texts of the requested names that are keys of the cache in memory
LfsOutput(schema_descriptions, names) ==
    IF names = <<>> THEN <<>>
    ELSE (IF names[1] \in DOMAIN schema_descriptions
          THEN <<schema_descriptions[names[1]]>> ELSE <<>>)
         \o LfsOutput(schema_descriptions, Tail(names))

list_file_schema(file_names_list, oks) ==
    LET st == LfsLoop(LfsStart(schema_descriptions_json, con), file_names_list, oks, 1,
                      data_files_json, fs)
    IN  /\ schema_descriptions_json' = st.disk
        /\ con' = st.con
        /\ ret' = Result("list_file_schema", file_names_list, st.exc,
                         IF st.exc = "none"
                         THEN LfsOutput(st.schema_descriptions, file_names_list)
                         ELSE <<>>,
                         st.reads, <<>>)
        /\ tick' = 1 - tick
        /\ UNCHANGED <<fs, scandir, data_files_json>>

----------------------------------------------------------------------------
(* load_override_schema *)

UpperCase == <<"A", "B", "C", "D", "E", "F", "G", "H", "I", "J", "K", "L", "M",
               "N", "O", "P", "Q", "R", "S", "T", "U", "V", "W", "X", "Y", "Z">>
LowerCase == <<"a", "b", "c", "d", "e", "f", "g", "h", "i", "j", "k", "l", "m",
               "n", "o", "p", "q", "r", "s", "t", "u", "v", "w", "x", "y", "z">>

\* dtype.lower()
Lower(s) ==
    [i \in DOMAIN s |->
        IF \E k \in DOMAIN UpperCase : UpperCase[k] = s[i]
        THEN LowerCase[CHOOSE k \in DOMAIN UpperCase : UpperCase[k] = s[i]]
        ELSE s[i]]

tag_int      == <<"i", "n", "t">>
tag_float    == <<"f", "l", "o", "a", "t">>
tag_str      == <<"s", "t", "r">>
tag_string   == <<"s", "t", "r", "i", "n", "g">>
tag_bool     == <<"b", "o", "o", "l">>
tag_date     == <<"d", "a", "t", "e">>
tag_datetime == <<"d", "a", "t", "e", "t", "i", "m", "e">>
tag_INT      == <<"I", "N", "T">>
tag_uuid     == <<"u", "u", "i", "d">>

\* the type tags the docstring of load_override_schema lists
TypeTags ==
    {tag_int, tag_float, tag_str, tag_string, tag_bool, tag_date, tag_datetime}

\* PolarsDtype with the else branch lost: an unknown tag is taken as a string
PolarsDtypeAny(dtype) == "Utf8"

\* lines 210-223: the Polars type of a tag, "" when no branch takes it
PolarsDtype(dtype) ==
    LET t == Lower(dtype)
    IN  IF t = tag_int THEN "Int64"
        ELSE IF t = tag_float THEN "Float64"
        ELSE IF t = tag_str \/ t = tag_string THEN "Utf8"
        ELSE IF t = tag_bool THEN "Boolean"
        ELSE IF t = tag_date THEN "Date"
        ELSE IF t = tag_datetime THEN "Datetime"
        ELSE ""

\* the loop of lines 209-223 over the items of schema_override_input, in order:
\* the column types so far, and the first item no branch takes (0: none)
RECURSIVE OverrideTypes(_, _, _)
OverrideTypes(items, i, acc) ==
    IF i > Len(items) THEN [schema_override |-> acc, bad |-> 0]
    ELSE IF PolarsDtype(items[i].dtype) = "" THEN [schema_override |-> acc, bad |-> i]
    ELSE OverrideTypes(items, i + 1,
                       Append(acc, [col |-> items[i].col,
                                    dtype |-> PolarsDtype(items[i].dtype)]))

OverrideOut(kind, text) == [kind |-> kind, text |-> text]

\* OverrideDump writing only new keys: a cached description survives the override
OverrideDumpKeep(doc, schema_descriptions, file) ==
    IF file \in DOMAIN LoadCache(doc)
    THEN DumpCache(MapSet(schema_descriptions, file, LoadCache(doc)[file]))
    ELSE DumpCache(schema_descriptions)

\* line 249: the cache with the override's text is written
OverrideDump(doc, schema_descriptions, file) == DumpCache(schema_descriptions)

load_override_schema(schema_json, ok) ==
    LET file  == schema_json.file_name
        types == OverrideTypes(schema_json.schema_override_input, 1, <<>>)
        quiet == /\ UNCHANGED <<fs, scandir, data_files_json, schema_descriptions_json, con>>
                 /\ tick' = 1 - tick
        Return(exc, out, reads) ==
            ret' = Result("load_override_schema", schema_json, exc, out, reads, <<>>)
    IN  IF data_files_json.kind = "absent"
        THEN \* line 201: data_files unbound
             Return("UnboundLocalError", OverrideOut("none", <<>>), <<>>) /\ quiet
        ELSE IF ~InSeq(file, Keys(data_files_json))
        THEN Return("none", OverrideOut("not_found", <<>>), <<>>) /\ quiet
        ELSE IF data_files_json.kind = "marker"
        THEN \* line 204: "No data files found"["path"]
             Return("TypeError", OverrideOut("none", <<>>), <<>>) /\ quiet
        ELSE LET e == Entry(data_files_json, file)
                 read == <<[file |-> file, path |-> e.path]>>
             IN  IF types.bad # 0
                 THEN Return("none", OverrideOut("unsupported_type",
                                 <<schema_json.schema_override_input[types.bad]>>), <<>>)
                      /\ quiet
                 ELSE IF ~ReaderFormat(file)
                 THEN Return("none", OverrideOut("unsupported_format", <<>>), <<>>) /\ quiet
                 ELSE IF ~ReadOk(fs, e.path, ok)
                 THEN Return("none", OverrideOut("load_error", <<>>), read) /\ quiet
                 ELSE LET df == Dataframe(e.path, types.schema_override)
                          sd == MapSet(LoadCache(schema_descriptions_json), file,
                                       OverrideText(file, df))
                      IN  /\ con' = MapSet(con, e.table_name, df)
                          /\ schema_descriptions_json' =
                                 OverrideDump(schema_descriptions_json, sd, file)
                          /\ Return("none", OverrideOut("success", <<sd[file]>>), read)
                          /\ tick' = 1 - tick
                          /\ UNCHANGED <<fs, scandir, data_files_json>>

----------------------------------------------------------------------------
(* query_files *)

kw_SELECT == <<"S", "E", "L", "E", "C", "T">>
kw_FROM   == <<"F", "R", "O", "M">>
kw_star   == <<"*">>
kw_comma  == <<",">>

\* line 295: not os.path.exists(path)
PathMissing(disk, path) == ~Exists(disk, path)

\* the loop of lines 286-298 from entry i on: the query as rewritten so far,
\* or the path whose file is missing
RECURSIVE Rewrite(_, _, _, _, _)
Rewrite(raw_query, words, entries, i, disk) ==
    IF i > Len(entries) THEN [query |-> raw_query, missing |-> NoStr]
    ELSE LET e == entries[i]
         IN  IF InSeq(e.file, words)
             THEN Rewrite(Replace(raw_query, e.file, e.table_name),
                          words, entries, i + 1, disk)
             ELSE IF InSeq(e.path, words)
             THEN IF PathMissing(disk, e.path)
                  THEN [query |-> raw_query, missing |-> e.path]
                  ELSE Rewrite(Replace(raw_query, e.path, e.table_name),
                               words, entries, i + 1, disk)
             ELSE Rewrite(raw_query, words, entries, i + 1, disk)

RECURSIVE AfterFrom(_)
\* the words of a query that follow its FROM
AfterFrom(words) ==
    IF words = <<>> THEN <<>>
    ELSE IF words[1] = kw_FROM THEN Tail(words)
    ELSE AfterFrom(Tail(words))

\* the tables a query of the form SELECT * FROM t1 , t2 ... reads
TableRefs(query) ==
    SelectSeq(AfterFrom(Split(query)), LAMBDA w : w # kw_comma)

\* con.execute(query).df().to_string(): the rows of the tables the query reads,
\* or DuckDB's error when one of them is not registered in the session
Execute(tables, query) ==
    LET refs == TableRefs(query)
    IN  IF \A i \in DOMAIN refs : refs[i] \in DOMAIN tables
        THEN [kind |-> "rows", text |-> [i \in DOMAIN refs |-> tables[refs[i]]]]
        ELSE [kind |-> "exec_error", text |-> <<>>]

query_files(raw_query) ==
    LET words == Split(raw_query)
        Return(exc, out, sql) ==
            ret' = Result("query_files", raw_query, exc, out, <<>>, sql)
    IN  /\ IF data_files_json.kind = "absent"
           THEN \* line 286: data_files unbound
                Return("UnboundLocalError", [kind |-> "none", text |-> <<>>], <<>>)
           ELSE IF data_files_json.kind = "marker"
           THEN \* lines 289 and 293: "No data files found"['table_name'] or ["path"]
                Return("TypeError", [kind |-> "none", text |-> <<>>], <<>>)
           ELSE LET r == Rewrite(raw_query, words, data_files_json.entries, 1, fs)
                IN  IF r.missing # NoStr
                    THEN Return("none", [kind |-> "missing_file", text |-> <<r.missing>>],
                                <<>>)
                    ELSE Return("none", Execute(con, r.query), <<r.query>>)
        /\ tick' = 1 - tick
        /\ UNCHANGED <<fs, scandir, data_files_json, schema_descriptions_json, con>>

\* a query SELECT * FROM r1 , r2 ... over the given table references
SelectFrom(refs) ==
    Join(<<" ">>, <<kw_SELECT, kw_star, kw_FROM>> \o
                  [i \in 1..(2 * Len(refs) - 1) |->
                      IF i % 2 = 1 THEN refs[(i + 1) \div 2] ELSE kw_comma])

----------------------------------------------------------------------------
(* The server process ends and a new one starts in the same directory *)

Restart ==
    /\ con # EmptyMap
    /\ con' = EmptyMap
    /\ UNCHANGED <<fs, scandir, data_files_json, schema_descriptions_json, ret, tick>>

----------------------------------------------------------------------------
(* The environment: files appear and disappear *)

FsCreate(f) ==
    /\ f \notin fs
    /\ Cardinality(fs) < MaxFiles
    /\ fs' = fs \cup {f}
    /\ \E k \in 0..Len(scandir[f[1]]) :
          scandir' = [scandir EXCEPT ![f[1]] =
                         SubSeq(@, 1, k) \o <<f[2]>> \o SubSeq(@, k + 1, Len(@))]
    /\ UNCHANGED <<data_files_json, schema_descriptions_json, con, ret, tick>>

FsDelete(f) ==
    /\ f \in fs
    /\ fs' = fs \ {f}
    /\ scandir' = [scandir EXCEPT ![f[1]] = SelectSeq(@, LAMBDA name : name # f[2])]
    /\ UNCHANGED <<data_files_json, schema_descriptions_json, con, ret, tick>>

----------------------------------------------------------------------------
(* The state of a freshly started server in an empty working directory *)

NoCache == [exists |-> FALSE, map |-> <<>>]

Init ==
    /\ fs = {}
    /\ scandir = [dir \in Dirs |-> <<>>]
    /\ data_files_json = NoCatalog
    /\ schema_descriptions_json = NoCache
    /\ con = EmptyMap
    /\ ret = Result("init", <<>>, "none", NoOut, <<>>, <<>>)
    /\ tick = 0

Roots == {dir_d, dir_ds}

\* the sequences over S of lengths lo..hi
Seqs(S, lo, hi) == UNION {[1..k -> S] : k \in lo..hi}

CreateFile(world) == \E f \in world : FsCreate(f)
DeleteFile == \E f \in fs : FsDelete(f)
ListDataFiles == \E path \in Roots : list_data_files(path)

\* the names of a list
Range(seq) == {seq[i] : i \in DOMAIN seq}

\* a call reads a file at most once, so the reader's outcome is drawn per name
ListFileSchema(nameLists) ==
    \E names \in nameLists : \E oks \in [Range(names) -> BOOLEAN] :
        list_file_schema(names, oks)

LoadOverrideSchema(names, tagLists) ==
    \E file \in names : \E tags \in tagLists : \E ok \in BOOLEAN :
        load_override_schema(
            [file_name |-> file,
             schema_override_input |->
                 [i \in DOMAIN tags |-> [col |-> i, dtype |-> tags[i]]]],
            ok)

QueryFiles(refLists) == \E refs \in refLists : query_files(SelectFrom(refs))

----------------------------------------------------------------------------
(* The whole server, over a tree where a.csv lies in two directories *)

Files == {<<dir_d, a_csv>>, <<dir_ds, a_csv>>}
FileNames == {a_csv, error_key}
NameLists == Seqs(FileNames, 0, MaxNames)
OverrideTags == {tag_int, tag_INT, tag_uuid}
TagLists == Seqs(OverrideTags, 1, MaxCols)
Refs == {a_csv, PathJoin(dir_d, a_csv)}
RefLists == Seqs(Refs, 1, 1)

CreateAnyFile == CreateFile(Files)
ListAnySchema == ListFileSchema(NameLists)
LoadAnyOverride == LoadOverrideSchema({a_csv}, TagLists)
QueryAnyFile == QueryFiles(RefLists)

Next ==
    \/ CreateAnyFile
    \/ DeleteFile
    \/ Restart
    \/ ListDataFiles
    \/ ListAnySchema
    \/ LoadAnyOverride
    \/ QueryAnyFile

Spec == Init /\ [][Next]_vars

----------------------------------------------------------------------------
(* Discovery, introspection and queries, over a tree with two file names,  *)
(* one of them in a subdirectory (a discovery of the subdirectory catalogs *)
(* that one alone)                                                         *)

CacheWorld == {<<dir_ds, a_csv>>, <<dir_d, b_csv>>}
CacheNames == {a_csv, b_csv}

CreateCacheFile == CreateFile(CacheWorld)
ListSchemas == ListFileSchema(Seqs(CacheNames, 0, MaxNames))

NextCache ==
    \/ CreateCacheFile
    \/ DeleteFile
    \/ ListDataFiles
    \/ ListSchemas
    \/ QueryAnyFile

SpecCache == Init /\ [][NextCache]_vars

----------------------------------------------------------------------------
(* Discovery alone, over a tree whose file names differ in their extensions *)

CatalogFiles ==
    {<<dir_d, a_csv>>, <<dir_d, b_json>>, <<dir_d, c_xlsx>>, <<dir_d, p_parquet>>,
     <<dir_d, q_paraquet>>, <<dir_d, n_txt>>, <<dir_d, u_CSV>>, <<dir_ds, a_csv>>}

CreateCatalogFile == CreateFile(CatalogFiles)

NextCatalog == CreateCatalogFile \/ DeleteFile \/ ListDataFiles

SpecCatalog == Init /\ [][NextCatalog]_vars

----------------------------------------------------------------------------
(* Discovery, introspection and queries, over a directory where one file   *)
(* name is part of another                                                 *)

QueryWorld == {<<dir_d, a_csv>>, <<dir_d, xa_csv>>}
QueryNames == {a_csv, xa_csv}
QueryRefs == QueryNames \cup {PathJoin(f[1], f[2]) : f \in QueryWorld}
QueryRefLists == Seqs(QueryRefs, 1, MaxRefs)

CreateQueryFile == CreateFile(QueryWorld)
ListOneSchema == ListFileSchema(Seqs(QueryNames, 1, 1))
QueryManyFiles == QueryFiles(QueryRefLists)

NextQuery ==
    \/ CreateQueryFile
    \/ DeleteFile
    \/ ListDataFiles
    \/ ListOneSchema
    \/ QueryManyFiles

SpecQuery == Init /\ [][NextQuery]_vars

----------------------------------------------------------------------------
(* What the claims read *)

Cache == LoadCache(schema_descriptions_json)
Entries == data_files_json.entries

\* this step is a call of the tool op
Called(op) == tick' # tick /\ ret'.op = op

----------------------------------------------------------------------------
\* C1: every tool returns a string and never raises, also when no catalog
\* document exists yet and when the catalog is the no-files marker.
C1_NeverRaises == ret.exc = "none"

----------------------------------------------------------------------------
\* the two halves of C2, as steps
C2_FirstCallCaches ==
    (/\ Called("list_file_schema")
     /\ Len(ret'.arg) = 1
     /\ Cataloged(data_files_json, ret'.arg[1])
     /\ ret'.arg[1] \notin DOMAIN Cache)
    => ret'.arg[1] \in DOMAIN Cache'

C2_SecondCallHits ==
    (/\ ret.op = "list_file_schema"
     /\ Len(ret.arg) = 1
     /\ Cataloged(data_files_json, ret.arg[1])
     /\ Called("list_file_schema")
     /\ ret'.arg = ret.arg)
    => ret'.reads = <<>>

\* C2: one list_file_schema([file_name]) call for a cataloged file_name that has
\* no cache entry leaves an entry for it in the persisted cache, whether the
\* introspection succeeded or failed, and a second list_file_schema([file_name])
\* call does not invoke the reader.
C2_FailureIsCached == [][C2_FirstCallCaches /\ C2_SecondCallHits]_vars

----------------------------------------------------------------------------
\* the two halves of C3, as steps
C3_KeysStay == DOMAIN Cache \subseteq DOMAIN Cache'

C3_NoReadOfCached ==
    Called("list_file_schema")
    => \A i \in DOMAIN ret'.reads : ret'.reads[i].file \notin DOMAIN Cache

\* C3: the persisted cache never loses a key, and a list_file_schema call
\* never invokes the reader for a file_name that is a key of the persisted
\* cache when the call starts; so once the cache holds an entry for a
\* file_name, no later list_file_schema call reads that file again.
C3_CachedNeverReadAgain == [][C3_KeysStay /\ C3_NoReadOfCached]_vars

\* a.csv is served from the cache although the catalog, rebuilt since, gives
\* it another path than the one that was described
C3_Witness ==
    /\ ret.op = "list_file_schema"
    /\ ret.exc = "none"
    /\ ret.arg = <<a_csv>>
    /\ ret.reads = <<>>
    /\ Cataloged(data_files_json, a_csv)
    /\ a_csv \in DOMAIN Cache
    /\ Cache[a_csv].kind = "schema"
    /\ Cache[a_csv].path # Entry(data_files_json, a_csv).path

----------------------------------------------------------------------------
\* the two halves of C4, as steps
C4_NoEntryWritten ==
    Called("list_file_schema")
    => \A i \in DOMAIN ret'.arg :
          LET file == ret'.arg[i]
          IN  ~InSeq(file, Keys(data_files_json))
              => /\ (file \in DOMAIN Cache') = (file \in DOMAIN Cache)
                 /\ file \in DOMAIN Cache => Cache'[file] = Cache[file]

C4_NoStoredNotFound ==
    (Called("list_file_schema") /\ ret'.exc = "none")
    => \A i \in DOMAIN ret'.out :
          ret'.out[i].kind = "not_found"
          => ~Cataloged(data_files_json, ret'.out[i].file)

\* C4: a list_file_schema call naming a file_name that is no key of the catalog
\* neither adds nor changes the persisted cache entry of that name, whatever
\* other names the call holds; so list_file_schema never returns a "not found"
\* text for a name the catalog holds.
C4_NotFoundStateless == [][C4_NoEntryWritten /\ C4_NoStoredNotFound]_vars

----------------------------------------------------------------------------
\* C5: in the SQL that query_files submits, each whitespace-delimited token of
\* the raw query that equals a catalog entry's file_name has become that
\* entry's table_id, also when one file name is part of another.
C5_TokensRewritten ==
    (ret.op = "query_files" /\ ret.sql # <<>>)
    => LET words == Split(ret.arg)
           sent  == Split(ret.sql[1])
       IN  \A i \in DOMAIN words : \A k \in DOMAIN Entries :
              words[i] = Entries[k].file
              => (i \in DOMAIN sent /\ sent[i] = Entries[k].table_name)

----------------------------------------------------------------------------
\* C6 as a step
C6_MissingPathChecked ==
    (/\ Called("query_files")
     /\ data_files_json.kind = "map"
     /\ \E k \in DOMAIN Entries :
           /\ InSeq(Entries[k].path, Split(ret'.arg))
           /\ ~Exists(fs, Entries[k].path))
    => (ret'.out.kind = "missing_file" /\ ret'.sql = <<>>)

\* C6: when the source_path of a catalog entry is a whitespace-delimited token
\* of the raw query and is not on disk, query_files returns the missing-file
\* error and submits no SQL, whatever else the query holds.
C6_MissingPathStopsQuery == [][C6_MissingPathChecked]_vars

----------------------------------------------------------------------------
\* C7 as claimed, as a step
C7_OriginalStep ==
    (/\ Called("load_override_schema")
     /\ ret'.exc = "none"
     /\ \E i \in DOMAIN ret'.arg.schema_override_input :
           ret'.arg.schema_override_input[i].dtype \notin TypeTags)
    => /\ ret'.out.kind = "unsupported_type"
       /\ ret'.reads = <<>>
       /\ con' = con
       /\ schema_descriptions_json' = schema_descriptions_json

C7_AmendedStep ==
    (/\ Called("load_override_schema")
     /\ Cataloged(data_files_json, ret'.arg.file_name)
     /\ \E i \in DOMAIN ret'.arg.schema_override_input :
           Lower(ret'.arg.schema_override_input[i].dtype) \notin TypeTags)
    => LET items == ret'.arg.schema_override_input
           first == CHOOSE i \in DOMAIN items :
                        /\ Lower(items[i].dtype) \notin TypeTags
                        /\ \A j \in 1..(i - 1) : Lower(items[j].dtype) \in TypeTags
       IN  /\ ret'.exc = "none"
           /\ ret'.out = OverrideOut("unsupported_type", <<items[first]>>)
           /\ ret'.reads = <<>>
           /\ con' = con
           /\ schema_descriptions_json' = schema_descriptions_json

----------------------------------------------------------------------------
\* the two halves of C8, as steps
C8_OverrideStep ==
    (Called("load_override_schema") /\ ret'.out.kind = "success")
    => LET file  == ret'.arg.file_name
           items == ret'.arg.schema_override_input
           e     == Entry(data_files_json, file)
           df    == Dataframe(e.path,
                              [i \in DOMAIN items |->
                                  [col |-> items[i].col,
                                   dtype |-> PolarsDtype(items[i].dtype)]])
       IN  /\ Cataloged(data_files_json, file)
           /\ e.table_name \in DOMAIN con'
           /\ con'[e.table_name] = df
           /\ file \in DOMAIN Cache'
           /\ Cache'[file] = OverrideText(file, df)
           /\ ret'.out.text = <<OverrideText(file, df)>>

C8_FollowingSchemaCall ==
    (/\ ret.op = "load_override_schema"
     /\ ret.out.kind = "success"
     /\ Called("list_file_schema")
     /\ ret'.arg = <<ret.arg.file_name>>)
    => /\ ret'.exc = "none"
       /\ ret'.reads = <<>>
       /\ ret'.out = ret.out.text

\* C8: after a successful load_override_schema for a cataloged file_name, the
\* session binds its table_id to the override-loaded dataframe and the
\* persisted cache entry of file_name is the override's description, whatever
\* they held before; a following list_file_schema([file_name]) returns that
\* description and invokes no reader.
C8_OverrideReplaces == [][C8_OverrideStep /\ C8_FollowingSchemaCall]_vars

\* list_file_schema(["a.csv"]) has returned the description of an override
C8_Witness ==
    /\ ret.op = "list_file_schema"
    /\ ret.arg = <<a_csv>>
    /\ ret.reads = <<>>
    /\ Len(ret.out) = 1
    /\ ret.out[1].kind = "override"
    /\ TableName(a_csv) \in DOMAIN con
    /\ con[TableName(a_csv)].dtypes # <<>>

----------------------------------------------------------------------------
\* C9 as a step
C9_DiscoveryStep ==
    Called("list_data_files")
    => LET doc == data_files_json'
       IN  /\ doc.kind \in {"map", "marker"}
           /\ doc.kind = "marker" => (doc.entries = <<>> /\ ret'.out = <<>>)
           /\ doc.kind = "map" =>
                 /\ doc.entries # <<>>
                 /\ Split(ret'.out) = [i \in DOMAIN doc.entries |-> doc.entries[i].file]
                 /\ \A i, j \in DOMAIN doc.entries :
                       doc.entries[i].file = doc.entries[j].file => i = j
                 /\ \A i \in DOMAIN doc.entries :
                       \E f \in FilesUnder(fs, ret'.arg) :
                          /\ f[2] = doc.entries[i].file
                          /\ PathJoin(f[1], f[2]) = doc.entries[i].path

\* C9: after a list_data_files call the persisted catalog is a non-empty
\* mapping or the no-files marker; the keys of a mapping are exactly the names
\* the call returned, and each entry is of a file this walk found, at its path
\* (no entry of an earlier discovery is left); with the marker the returned
\* text is empty.
C9_CatalogReplaced == [][C9_DiscoveryStep]_vars

\* a second or later discovery, of the subdirectory, has left the one file
\* below it in the catalog while the disk holds another data file
C9_Witness ==
    /\ ret.op = "list_data_files"
    /\ tick = 0
    /\ ret.arg = dir_ds
    /\ data_files_json.kind = "map"
    /\ Len(Entries) = 1
    /\ \E f \in fs : f[1] = dir_d /\ IsDataFile(f[2])

----------------------------------------------------------------------------
\* the extensions the documentation names (lines 3 and 135)
SupportedExtension(file) ==
    \E ext \in {dot_csv, dot_json, dot_xlsx, dot_parquet} : EndsWith(file, ext)

C10_DiscoveryStep ==
    Called("list_data_files")
    => LET doc == data_files_json'
           cataloged == IF doc.kind = "map"
                        THEN {doc.entries[i].file : i \in DOMAIN doc.entries}
                        ELSE {}
       IN  cataloged = {f[2] : f \in {g \in FilesUnder(fs, ret'.arg) :
                                          SupportedExtension(g[2])}}

\* C10: list_data_files catalogs a file if and only if its name ends with
\* .csv, .json, .xlsx or .parquet.
C10_SupportedExtensionsOnly == [][C10_DiscoveryStep]_vars

----------------------------------------------------------------------------
(* Discovery over a tree whose file names differ in '.', '-' and directory *)

NamesWorld ==
    {<<dir_d, a_dash_b_csv>>, <<dir_d, a_dot_b_csv>>, <<dir_d, a_csv>>, <<dir_ds, a_csv>>}

CreateNamedFile == CreateFile(NamesWorld)

NextNames == CreateNamedFile \/ DeleteFile \/ ListDataFiles

SpecNames == Init /\ [][NextNames]_vars

\* C11: in every persisted catalog two different file names never have the same
\* table name, so that two different cataloged files never share one binding of
\* the engine (a binding is named by the table name alone, line 142).
C11_TableNamesDistinct ==
    data_files_json.kind = "map"
    => \A i, j \in DOMAIN Entries :
          Entries[i].file # Entries[j].file
              => Entries[i].table_name # Entries[j].table_name

----------------------------------------------------------------------------
(* Introspection and overrides over a tree that holds a cataloged file no  *)
(* reader takes (q.paraquet) next to one a reader takes                    *)

FormatWorld == {<<dir_d, q_paraquet>>, <<dir_ds, a_csv>>}
FormatNames == {q_paraquet, a_csv}

CreateFormatFile == CreateFile(FormatWorld)
ListFormatSchemas == ListFileSchema(Seqs(FormatNames, 0, MaxNames))
LoadFormatOverride == LoadOverrideSchema({q_paraquet}, TagLists)

NextFormat ==
    \/ CreateFormatFile
    \/ DeleteFile
    \/ ListDataFiles
    \/ ListFormatSchemas
    \/ LoadFormatOverride

SpecFormat == Init /\ [][NextFormat]_vars

\* a cataloged file whose name ends with none of .csv, .json, .xlsx, .parquet
NoReaderFor(file) == Cataloged(data_files_json, file) /\ ~SupportedExtension(file)

\* list_file_schema on such a file: the returned text holds the report for it
C12_SchemaStep ==
    (Called("list_file_schema") /\ ret'.exc = "none")
    => \A i \in DOMAIN ret'.arg :
          NoReaderFor(ret'.arg[i])
          => /\ \E k \in DOMAIN ret'.out :
                    ret'.out[k] = UnsupportedFormatText(ret'.arg[i])
             /\ \A k \in DOMAIN ret'.reads : ret'.reads[k].file # ret'.arg[i]
             /\ TableName(ret'.arg[i]) \notin DOMAIN con'

\* load_override_schema on such a file, with type tags the tool takes
C12_OverrideStep ==
    (/\ Called("load_override_schema")
     /\ ret'.exc = "none"
     /\ NoReaderFor(ret'.arg.file_name)
     /\ ret'.out.kind # "unsupported_type")
    => /\ ret'.out.kind = "unsupported_format"
       /\ ret'.reads = <<>>
       /\ TableName(ret'.arg.file_name) \notin DOMAIN con'

\* C12: for a cataloged file whose extension is outside csv, json, xlsx and
\* parquet, list_file_schema and load_override_schema both return a text that
\* reports the unsupported format for that file, and neither registers a table
\* nor calls a reader.
C12_UnsupportedFormatReported == [][C12_SchemaStep /\ C12_OverrideStep]_vars

----------------------------------------------------------------------------
\* the segment of one requested name: for a cataloged name the description the
\* cache held when the call began or else a fresh description or the reader's
\* diagnostic, for any other name the not-found text
C13_Segment(file, text) ==
    IF Cataloged(data_files_json, file)
    THEN /\ text.file = file
         /\ IF file \in DOMAIN Cache
            THEN text = Cache[file] /\ text.kind \in {"schema", "override", "error"}
            ELSE text.kind \in {"schema", "error"}
    ELSE text = NotFoundText(file)

C13_SchemaStep ==
    (Called("list_file_schema") /\ ret'.exc = "none")
    => /\ Len(ret'.out) = Len(ret'.arg)
       /\ \A i \in DOMAIN ret'.arg :
              i \in DOMAIN ret'.out /\ C13_Segment(ret'.arg[i], ret'.out[i])

\* C13: the text list_file_schema(names) returns is the concatenation, in input
\* order, of one segment per requested name: the cached or fresh description (or
\* the load-failure diagnostic) of a cataloged name, the not-found text of a name
\* that is not in the catalog.
C13_OneSegmentPerName == [][C13_SchemaStep]_vars

----------------------------------------------------------------------------
\* a discovery that follows a discovery of the same root, the tree below the
\* root being now what the earlier walk yielded (ret.reads): the catalog and
\* the returned names are those of the earlier call
C14_SecondRun ==
    (/\ ret.op = "list_data_files"
     /\ Called("list_data_files")
     /\ ret'.arg = ret.arg
     /\ ret.reads \in Walks(fs, scandir, ret.arg))
    => /\ data_files_json' = data_files_json
       /\ ret'.out = ret.out

----------------------------------------------------------------------------
\* '_' followed by the file name, each '.' and each '-' turned into '_'
C15_Sanitized(file) ==
    <<"_">> \o [i \in 1..Len(file) |-> IF file[i] \in {".", "-"} THEN "_" ELSE file[i]]

\* C15: the table name of every catalog entry is '_' followed by the file name
\* with every '.' and '-' replaced by '_'; it depends on the file name alone,
\* not on the file's path or on earlier discoveries.
C15_TableNameOfFileName ==
    data_files_json.kind = "map"
    => \A i \in DOMAIN Entries :
          Entries[i].table_name = C15_Sanitized(Entries[i].file)

\* the catalog holds a-b.csv as _a_b_csv, and a.csv found below /d/s as _a_csv
C15_Witness ==
    /\ data_files_json.kind = "map"
    /\ \E i \in DOMAIN Entries :
          /\ Entries[i].file = a_dash_b_csv
          /\ Entries[i].table_name = <<"_", "a", "_", "b", "_", "c", "s", "v">>
    /\ \E i \in DOMAIN Entries :
          /\ Entries[i].path = PathJoin(dir_ds, a_csv)
          /\ Entries[i].table_name = <<"_", "a", "_", "c", "s", "v">>

----------------------------------------------------------------------------
\* every token of the raw query that is the path of a catalog entry, the path
\* being on disk, is the entry's table name in the SQL text that is submitted
C16_PathStep ==
    (/\ Called("query_files")
     /\ data_files_json.kind = "map"
     /\ ret'.sql # <<>>)
    => LET words == Split(ret'.arg)
           sent  == Split(ret'.sql[1])
       IN  \A i \in DOMAIN words : \A k \in DOMAIN Entries :
              (words[i] = Entries[k].path /\ Exists(fs, Entries[k].path))
              => (i \in DOMAIN sent /\ sent[i] = Entries[k].table_name)

\* C16: for every catalog entry whose path is a token of the raw query and is
\* on disk, the SQL text query_files submits has the entry's table name in place
\* of every occurrence of the path, also when the query holds the entry's file
\* name as a token, or other cataloged file names that are parts of the path.
C16_PathTokensRewritten == [][C16_PathStep]_vars

----------------------------------------------------------------------------
\* list_file_schema has returned the schema description of a cataloged file:
\* the file's table name is bound in the session the call ran in
C17_SchemaStep ==
    (Called("list_file_schema") /\ ret'.exc = "none")
    => \A i \in DOMAIN ret'.out :
          (/\ ret'.out[i].kind \in {"schema", "override"}
           /\ Cataloged(data_files_json, ret'.out[i].file))
          => Entry(data_files_json, ret'.out[i].file).table_name \in DOMAIN con'

\* C17: whenever list_file_schema returns a schema description for a cataloged
\* file, the file's table name is bound in the current engine session, so that
\* a query naming the file right after does not fail for a missing table; also
\* when the description comes from the persisted cache in a process started
\* after the one that read the file.
C17_DescribedIsBound == [][C17_SchemaStep]_vars

----------------------------------------------------------------------------
\* after a discovery, each file below the root with a supported extension is
\* the path of some entry of the catalog
C18_DiscoveryStep ==
    Called("list_data_files")
    => \A f \in FilesUnder(fs, ret'.arg) :
          SupportedExtension(f[2])
          => /\ data_files_json'.kind = "map"
             /\ \E i \in DOMAIN data_files_json'.entries :
                    data_files_json'.entries[i].path = PathJoin(f[1], f[2])

\* C18: after list_data_files(root) every supported file found under root can
\* be resolved: the catalog holds an entry whose path is that file's path, also
\* when two files in different subdirectories have the same base name.
C18_EveryFileResolvable == [][C18_DiscoveryStep]_vars

----------------------------------------------------------------------------
\* what a discovery and a query leave alone
C19_FrameStep ==
    /\ Called("list_data_files")
           => (schema_descriptions_json' = schema_descriptions_json /\ con' = con)
    /\ Called("query_files")
           => /\ data_files_json' = data_files_json
              /\ schema_descriptions_json' = schema_descriptions_json

\* C19: list_data_files changes the persisted catalog only: the persisted
\* schema cache and the engine's bindings are as before the call; query_files
\* changes neither the persisted catalog nor the persisted schema cache.
C19_ToolsKeepTheRest == [][C19_FrameStep]_vars

\* a discovery has run while the cache held a description of a.csv and the
\* session a table, and both are still there
C19_Witness ==
    /\ ret.op = "list_data_files"
    /\ schema_descriptions_json.exists
    /\ a_csv \in DOMAIN Cache
    /\ con # EmptyMap

====
